---- MODULE Spec2Model ----
(***************************************************************************)
(* The daily-report service of src/main.py: four MongoDB collections       *)
(* (users, reports, action_items, admins), the startup hook that seeds the *)
(* default admin, and the request handlers.  A handler is a coroutine:     *)
(* it runs without interruption up to its next `await`, and every awaited  *)
(* collection operation (find_one, find, insert_one, delete_one,           *)
(* delete_many) or external call (llm.ainvoke) is one atomic step that may *)
(* interleave with the steps of the other requests in flight.  The HTML    *)
(* pages (/, /login, /admin, /team_members, /reports) only render          *)
(* templates and are left out.                                             *)
(***************************************************************************)
EXTENDS Integers, Sequences, FiniteSets, TLC

\* ------------------------------------------------------------------ bounds
\* Worker processes that run the startup hook against the same store.
NumServers == 2
\* Requests that may be in flight at the same time.
NumClients == 2
\* Requests the service receives in one run.
MaxRequests == 2
\* Requests of one run of the user-directory handlers alone.
MaxUserRequests == 3

Servers == 1..NumServers
Clients == 1..NumClients

\* --------------------------------------------------------------- constants
\* `count_words(...) > 10` in save_report.
MaxWords == 10

admin_email == "aravind@gmail.com"
admin_password == "Admin@1234"

\* ------------------------------------------------------------------ inputs
\* Text is a sequence of Unicode code points (ord of each character of the
\* str).  Whitespace holds every code point c with chr(c).isspace(), which is
\* what str.strip() and str.split() without arguments remove and split on:
\* \t \n \x0b \f \r, \x1c-\x1f, space, \x85, \xa0, U+1680, U+2000-U+200A,
\* U+2028, U+2029, U+202F, U+205F and U+3000.
Whitespace ==
    (9..13) \cup (28..32) \cup {133, 160, 5760} \cup (8192..8202)
        \cup {8232, 8233, 8239, 8287, 12288}

\* "a"
W1 == <<97>>
\* " a\n"
W1Padded == <<32, 97, 10>>
\* "a\x0b\xa0b"
W2 == <<97, 11, 160, 98>>
\* "a b c d e\tf g\x1ch\u2003i\u3000j"
W10 == <<97, 32, 98, 32, 99, 32, 100, 32, 101, 9, 102, 32, 103, 28,
         104, 8195, 105, 12288, 106>>
\* " " + W10 + "\x85 "
W10Padded == <<32>> \o W10 \o <<133, 32>>
\* W10 + "\x0bk"
W11 == W10 \o <<11, 107>>
\* "\xa0\t"
Blank == <<160, 9>>
Empty == <<>>
\* "x"
OneX == <<120>>

Dates == {"2024-01-01", "2024-01-02"}
Names == {"Alice", "Bob"}
\* (yesterday, today, blockers) as submitted to /save_report.
Submissions ==
    { <<W10Padded, W1, Empty>>, <<W1Padded, W10, OneX>>, <<W11, W1, Empty>> }
\* The same, with every way of failing the validation.
AllSubmissions ==
    Submissions \cup { <<W1, W11, Empty>>, <<Empty, W1, Empty>>, <<W2, Blank, OneX>> }
\* The access_token cookie of a request; NoCookie is a request without one.
NoCookie == "<no cookie>"
Tokens == {NoCookie, "", admin_email, "mallory@example.com"}
Emails == {admin_email, "mallory@example.com"}
Passwords == {admin_password, "guess"}
\* What the external model answers (response.content).
\* "x" and "\u2028y\n"
LlmContents == { OneX, <<8232, 121, 10>> }

\* ------------------------------------------------------------------- state
VARIABLES
    users,          \* users_collection: documents in insertion order
    reports,        \* reports_collection
    action_items,   \* action_items_collection
    admins,         \* admins_collection
    files,          \* export files written by download_report, by date
    startup,        \* each worker's position in startup_event
    req,            \* each client's request: handler position, locals, response
    left            \* requests this run may still receive

vars == <<users, reports, action_items, admins, files, startup, req, left>>

\* ------------------------------------------------------- pure helper code
\* str.strip(): leading and trailing whitespace removed.
RECURSIVE lstrip(_)
lstrip(text) ==
    IF text # <<>> /\ Head(text) \in Whitespace THEN lstrip(Tail(text)) ELSE text

RECURSIVE rstrip(_)
rstrip(text) ==
    IF text # <<>> /\ text[Len(text)] \in Whitespace
    THEN rstrip(SubSeq(text, 1, Len(text) - 1)) ELSE text

strip(text) == rstrip(lstrip(text))

\* str.split() without arguments: the maximal runs of non-whitespace.
RECURSIVE split(_)
split(text) ==
    IF text = <<>> THEN <<>>
    ELSE IF Head(text) \in Whitespace THEN split(Tail(text))
    ELSE LET stops == {i \in 1..Len(text) : text[i] \in Whitespace}
             stop == IF stops = {} THEN Len(text) + 1
                     ELSE CHOOSE i \in stops : \A j \in stops : i <= j
         IN  <<SubSeq(text, 1, stop - 1)>> \o split(SubSeq(text, stop, Len(text)))

count_words(text) == Len(split(strip(text)))

\* Mutant of TooManyWords: only the first field is counted.
TooManyWords_FirstOnly(yesterday, today) == count_words(yesterday) > MaxWords

\* The two validation tests at the head of save_report.
TooManyWords(yesterday, today) ==
    count_words(yesterday) > MaxWords \/ count_words(today) > MaxWords

EmptyField(yesterday, today) ==
    strip(yesterday) = <<>> \/ strip(today) = <<>>

\* pwd_context.hash / pwd_context.verify (bcrypt, opaque).
hash(password) == [scheme |-> "bcrypt", secret |-> password]

verify_password(plain_password, hashed_password) ==
    hashed_password.scheme = "bcrypt" /\ hashed_password.secret = plain_password

\* ------------------------------------------------------ collection helpers
\* find_one: the first matching document in insertion order, 0 when none.
FirstOf(idx) == IF idx = {} THEN 0 ELSE CHOOSE i \in idx : \A j \in idx : i <= j

find_admin(email) == FirstOf({i \in DOMAIN admins : admins[i].email = email})

find_user(name) == FirstOf({i \in DOMAIN users : users[i].name = name})

find_report(date, name) ==
    FirstOf({i \in DOMAIN reports : reports[i].date = date /\ reports[i].name = name})

find_action_items(date) ==
    FirstOf({i \in DOMAIN action_items : action_items[i].date = date})

\* find({"date": date}).to_list(None)
IsDate(date, doc) == doc.date = date
find_reports(date) == SelectSeq(reports, LAMBDA r : IsDate(date, r))

insert_one(coll, doc) == Append(coll, doc)

RemoveAt(coll, i) == SubSeq(coll, 1, i - 1) \o SubSeq(coll, i + 1, Len(coll))

\* delete_one({"name": name}): the first match goes, if there is one.
delete_one_user(coll, name) ==
    LET i == FirstOf({k \in DOMAIN coll : coll[k].name = name})
    IN  IF i = 0 THEN coll ELSE RemoveAt(coll, i)

\* Mutant of delete_many_reports: the filter is lost, every report goes.
delete_many_reports_all(coll, name) == SelectSeq(coll, LAMBDA r : FALSE)

\* delete_many({"name": name})
delete_many_reports(coll, name) == SelectSeq(coll, LAMBDA r : r.name # name)

\* ---------------------------------------------------------------- requests
Idle == [op |-> "none", pc |-> "idle", token |-> NoCookie, date |-> "", name |-> "",
         yesterday |-> <<>>, today |-> <<>>, blockers |-> <<>>,
         email |-> "", password |-> "", rows |-> <<>>, text |-> <<>>,
         status |-> 0, body |-> <<>>]

\* A finished request keeps the cookie and the path or form key it came with,
\* and its response.
Respond(r, status, body) ==
    [Idle EXCEPT !.op = r.op, !.pc = "done", !.token = r.token,
                 !.date = r.date, !.name = r.name,
                 !.status = status, !.body = body]

\* A worker serves requests once its startup hook has returned.
Serving == \E s \in Servers : startup[s] = "done"

\* A request is taken by the first free slot (the slots are interchangeable).
Free(c) == req[c].pc \in {"idle", "done"}

CanReceive(c) == /\ Serving
                 /\ Free(c)
                 /\ \A b \in Clients : b < c => ~Free(b)
                 /\ left > 0

Receive(c, r) == /\ req' = [req EXCEPT ![c] = r]
                 /\ left' = left - 1

Step(c, r) == /\ req' = [req EXCEPT ![c] = r]
              /\ left' = left

stores == <<users, reports, action_items, admins, files>>

\* ----------------------------------------------------------------- startup
\* startup_event: find_one({"email": admin_email}), then insert when absent.
startup_find(s) ==
    /\ startup[s] = "find"
    /\ startup' = [startup EXCEPT ![s] = IF find_admin(admin_email) = 0
                                         THEN "insert" ELSE "done"]
    /\ UNCHANGED <<stores, req, left>>

startup_insert(s) ==
    /\ startup[s] = "insert"
    /\ admins' = insert_one(admins, [email |-> admin_email,
                                     password |-> hash(admin_password)])
    /\ startup' = [startup EXCEPT ![s] = "done"]
    /\ UNCHANGED <<users, reports, action_items, files, req, left>>

\* ------------------------------------------------------------------- login
login(c, email, password) ==
    /\ CanReceive(c)
    /\ Receive(c, [Idle EXCEPT !.op = "login", !.pc = "find",
                               !.email = email, !.password = password])
    /\ UNCHANGED <<stores, startup>>

\* authenticate_admin, then the cookie: the token is the email itself.
authenticate_admin(email, password) ==
    LET i == find_admin(email)
    IN  i # 0 /\ verify_password(password, admins[i].password)

login_find(c) ==
    /\ req[c].op = "login" /\ req[c].pc = "find"
    /\ Step(c, IF authenticate_admin(req[c].email, req[c].password)
               THEN Respond(req[c], 200, <<req[c].email>>)
               ELSE Respond(req[c], 401, <<"Invalid email or password">>))
    /\ UNCHANGED <<stores, startup>>

\* ------------------------------------------------------------ check_report
check_report(c, date, name) ==
    /\ CanReceive(c)
    /\ Receive(c, [Idle EXCEPT !.op = "check_report", !.pc = "find",
                               !.date = date, !.name = name])
    /\ UNCHANGED <<stores, startup>>

\* The report of the answer (its "id", an ObjectId, is left out).
ReportFields(r) == [yesterday |-> r.yesterday, today |-> r.today,
                    blockers |-> r.blockers]

check_report_find(c) ==
    /\ req[c].op = "check_report" /\ req[c].pc = "find"
    /\ LET i == find_report(req[c].date, req[c].name)
       IN  Step(c, Respond(req[c], 200,
                           IF i = 0 THEN <<>> ELSE <<ReportFields(reports[i])>>))
    /\ UNCHANGED <<stores, startup>>

\* ------------------------------------------------------------- save_report
Report(date, name, yesterday, today, blockers) ==
    [date |-> date, name |-> name, yesterday |-> yesterday, today |-> today,
     blockers |-> blockers]

\* The handler up to its first await: the two validation tests.  A rejected
\* request keeps the fields it was rejected for.
save_report(c, date, name, yesterday, today, blockers) ==
    /\ CanReceive(c)
    /\ LET r == [Idle EXCEPT !.op = "save_report", !.pc = "find",
                             !.date = date, !.name = name,
                             !.yesterday = yesterday, !.today = today,
                             !.blockers = blockers]
           rejected(detail) ==
               [Respond(r, 400, <<detail>>) EXCEPT !.yesterday = yesterday,
                                                   !.today = today]
       IN  Receive(c, IF TooManyWords(yesterday, today)
                      THEN rejected("Each field must not exceed 10 words")
                      ELSE IF EmptyField(yesterday, today)
                      THEN rejected("Yesterday's tasks and today's priorities cannot be empty")
                      ELSE r)
    /\ UNCHANGED <<stores, startup>>

save_report_find(c) ==
    /\ req[c].op = "save_report" /\ req[c].pc = "find"
    /\ Step(c, IF find_report(req[c].date, req[c].name) # 0
               THEN Respond(req[c], 400, <<"Report already exists for this user and date">>)
               ELSE [req[c] EXCEPT !.pc = "insert"])
    /\ UNCHANGED <<stores, startup>>

save_report_insert(c) ==
    /\ req[c].op = "save_report" /\ req[c].pc = "insert"
    /\ reports' = insert_one(reports, Report(req[c].date, req[c].name, req[c].yesterday,
                                             req[c].today, req[c].blockers))
    /\ Step(c, Respond(req[c], 200, <<"Report saved successfully">>))
    /\ UNCHANGED <<users, action_items, admins, files, startup>>

\* --------------------------------------------------------- admin-only gate
AdminOps == {"add_user", "delete_user", "get_users", "get_reports",
             "generate_action_items", "get_action_items", "download_report"}

\* get_current_admin, before its await: `if not token`.
token_missing(token) == token \in {NoCookie, ""}

\* Mutant of admin_known: any cookie passes once an admin exists.
admin_known_any(token) == admins # <<>>

\* get_current_admin, its find_one({"email": token}).
admin_known(token) == find_admin(token) # 0

\* An admin-only request as the dependency leaves it before its await.
AdminRequest(op, token, date, name) ==
    LET r == [Idle EXCEPT !.op = op, !.pc = "auth", !.token = token,
                          !.date = date, !.name = name]
    IN  IF token_missing(token) THEN Respond(r, 401, <<"Not authenticated">>) ELSE r

get_current_admin(c) ==
    /\ req[c].op \in AdminOps /\ req[c].pc = "auth"
    /\ Step(c, IF admin_known(req[c].token)
               THEN [req[c] EXCEPT !.pc = "find"]
               ELSE Respond(req[c], 401, <<"Invalid authentication credentials">>))
    /\ UNCHANGED <<stores, startup>>

\* ---------------------------------------------------------------- add_user
add_user(c, token, name) ==
    /\ CanReceive(c)
    /\ Receive(c, AdminRequest("add_user", token, "", name))
    /\ UNCHANGED <<stores, startup>>

add_user_find(c) ==
    /\ req[c].op = "add_user" /\ req[c].pc = "find"
    /\ Step(c, IF find_user(req[c].name) # 0
               THEN Respond(req[c], 400, <<"User already exists">>)
               ELSE [req[c] EXCEPT !.pc = "insert"])
    /\ UNCHANGED <<stores, startup>>

add_user_insert(c) ==
    /\ req[c].op = "add_user" /\ req[c].pc = "insert"
    /\ users' = insert_one(users, [name |-> req[c].name])
    /\ Step(c, Respond(req[c], 200, <<"User added successfully">>))
    /\ UNCHANGED <<reports, action_items, admins, files, startup>>

\* ------------------------------------------------------------- delete_user
delete_user(c, token, name) ==
    /\ CanReceive(c)
    /\ Receive(c, AdminRequest("delete_user", token, "", name))
    /\ UNCHANGED <<stores, startup>>

delete_user_find(c) ==
    /\ req[c].op = "delete_user" /\ req[c].pc = "find"
    /\ Step(c, IF find_user(req[c].name) = 0
               THEN Respond(req[c], 404, <<"User not found">>)
               ELSE [req[c] EXCEPT !.pc = "delete_one"])
    /\ UNCHANGED <<stores, startup>>

delete_user_delete_one(c) ==
    /\ req[c].op = "delete_user" /\ req[c].pc = "delete_one"
    /\ users' = delete_one_user(users, req[c].name)
    /\ Step(c, [req[c] EXCEPT !.pc = "delete_many"])
    /\ UNCHANGED <<reports, action_items, admins, files, startup>>

delete_user_delete_many(c) ==
    /\ req[c].op = "delete_user" /\ req[c].pc = "delete_many"
    /\ reports' = delete_many_reports(reports, req[c].name)
    /\ Step(c, Respond(req[c], 200, <<"User deleted successfully">>))
    /\ UNCHANGED <<users, action_items, admins, files, startup>>

\* --------------------------------------------------------------- get_users
get_users(c, token) ==
    /\ CanReceive(c)
    /\ Receive(c, AdminRequest("get_users", token, "", ""))
    /\ UNCHANGED <<stores, startup>>

get_users_find(c) ==
    /\ req[c].op = "get_users" /\ req[c].pc = "find"
    /\ Step(c, Respond(req[c], 200, [i \in DOMAIN users |-> users[i].name]))
    /\ UNCHANGED <<stores, startup>>

\* ------------------------------------------------------------- get_reports
get_reports(c, token, date) ==
    /\ CanReceive(c)
    /\ Receive(c, AdminRequest("get_reports", token, date, ""))
    /\ UNCHANGED <<stores, startup>>

Row(i, r) == [sno |-> i, name |-> r.name, yesterday |-> r.yesterday,
              today |-> r.today, blockers |-> r.blockers]

Rows(found) == [i \in DOMAIN found |-> Row(i, found[i])]

get_reports_find(c) ==
    /\ req[c].op = "get_reports" /\ req[c].pc = "find"
    /\ Step(c, Respond(req[c], 200, Rows(find_reports(req[c].date))))
    /\ UNCHANGED <<stores, startup>>

\* --------------------------------------------------- generate_action_items
ActionItems(date, items) == [date |-> date, items |-> items]

generate_action_items(c, token, date) ==
    /\ CanReceive(c)
    /\ Receive(c, AdminRequest("generate_action_items", token, date, ""))
    /\ UNCHANGED <<stores, startup>>

\* find({"date": date}): 404 when there is no report for the date.
generate_find_reports(c) ==
    /\ req[c].op = "generate_action_items" /\ req[c].pc = "find"
    /\ Step(c, IF find_reports(req[c].date) = <<>>
               THEN Respond(req[c], 404, <<"No reports found for this date">>)
               ELSE [req[c] EXCEPT !.pc = "find_items"])
    /\ UNCHANGED <<stores, startup>>

\* `if existing_action_items`: the cached text is the answer.
cache_hit(date) == find_action_items(date) # 0

generate_find_items(c) ==
    /\ req[c].op = "generate_action_items" /\ req[c].pc = "find_items"
    /\ Step(c, IF cache_hit(req[c].date)
               THEN Respond(req[c], 200, action_items[find_action_items(req[c].date)].items)
               ELSE [req[c] EXCEPT !.pc = "llm"])
    /\ UNCHANGED <<stores, startup>>

\* llm.ainvoke answers, and response.content.strip() is kept for the insert.
generate_llm_ok(c, content) ==
    /\ req[c].op = "generate_action_items" /\ req[c].pc = "llm"
    /\ Step(c, [req[c] EXCEPT !.pc = "insert", !.text = strip(content)])
    /\ UNCHANGED <<stores, startup>>

\* Mutant of generate_llm_fail: the failure is cached as an empty text.
generate_llm_fail_cached(c) ==
    /\ req[c].op = "generate_action_items" /\ req[c].pc = "llm"
    /\ action_items' = insert_one(action_items, [date |-> req[c].date, items |-> <<>>])
    /\ Step(c, Respond(req[c], 500, <<"Failed to generate action items">>))
    /\ UNCHANGED <<users, reports, admins, files, startup>>

\* llm.ainvoke raises (network, API error, malformed response): the except
\* branch answers 500.
generate_llm_fail(c) ==
    /\ req[c].op = "generate_action_items" /\ req[c].pc = "llm"
    /\ Step(c, Respond(req[c], 500, <<"Failed to generate action items">>))
    /\ UNCHANGED <<stores, startup>>

generate_insert(c) ==
    /\ req[c].op = "generate_action_items" /\ req[c].pc = "insert"
    /\ action_items' = insert_one(action_items, ActionItems(req[c].date, req[c].text))
    /\ Step(c, Respond(req[c], 200, req[c].text))
    /\ UNCHANGED <<users, reports, admins, files, startup>>

\* -------------------------------------------------------- get_action_items
get_action_items(c, token, date) ==
    /\ CanReceive(c)
    /\ Receive(c, AdminRequest("get_action_items", token, date, ""))
    /\ UNCHANGED <<stores, startup>>

get_action_items_find(c) ==
    /\ req[c].op = "get_action_items" /\ req[c].pc = "find"
    /\ LET i == find_action_items(req[c].date)
       IN  Step(c, Respond(req[c], 200, IF i = 0 THEN <<>> ELSE action_items[i].items))
    /\ UNCHANGED <<stores, startup>>

\* --------------------------------------------------------- download_report
download_report(c, token, date) ==
    /\ CanReceive(c)
    /\ Receive(c, AdminRequest("download_report", token, date, ""))
    /\ UNCHANGED <<stores, startup>>

download_find_reports(c) ==
    /\ req[c].op = "download_report" /\ req[c].pc = "find"
    /\ Step(c, [req[c] EXCEPT !.pc = "find_items", !.rows = find_reports(req[c].date)])
    /\ UNCHANGED <<stores, startup>>

\* The table rows (`blockers or "None"`) and the optional Action Items section
\* (`action_items and action_items["items"]`).
DocRow(i, r) == [sno |-> i, name |-> r.name, yesterday |-> r.yesterday,
                 today |-> r.today,
                 blockers |-> IF r.blockers = <<>> THEN <<78, 111, 110, 101>> ELSE r.blockers]

Document(date, found, i) ==
    [title |-> date,
     table |-> [k \in DOMAIN found |-> DocRow(k, found[k])],
     items |-> IF i # 0 /\ action_items[i].items # <<>>
               THEN <<action_items[i].items>> ELSE <<>>]

\* find_one on action_items, the 404 test, then the document is built, saved
\* as mom-report-<date>.docx and handed to FileResponse.
download_find_items(c) ==
    /\ req[c].op = "download_report" /\ req[c].pc = "find_items"
    /\ IF req[c].rows = <<>>
       THEN /\ Step(c, Respond(req[c], 404, <<"No reports found for this date">>))
            /\ UNCHANGED files
       ELSE /\ files' = [files EXCEPT ![req[c].date] =
                            <<Document(req[c].date, req[c].rows,
                                       find_action_items(req[c].date))>>]
            /\ Step(c, Respond(req[c], 200, <<req[c].date>>))
    /\ UNCHANGED <<users, reports, action_items, admins, startup>>

\* ----------------------------------------------------------- specification
\* The collections outlive the process: a run starts on the store that earlier
\* runs left.  Fresh is the empty database; Booted is Fresh after one
\* startup_event; Staffed is Booted after add_user(Alice), add_user(Bob) and
\* three accepted save_report calls, one after the other.
DefaultAdmin == [email |-> admin_email, password |-> hash(admin_password)]

Booted == [users |-> <<>>, reports |-> <<>>, action_items |-> <<>>,
           admins |-> <<DefaultAdmin>>]

Staffed ==
    [users |-> <<[name |-> "Alice"], [name |-> "Bob"]>>,
     reports |-> << Report("2024-01-01", "Alice", W10Padded, W1, Empty),
                    Report("2024-01-01", "Bob", W1Padded, W10, OneX),
                    Report("2024-01-02", "Alice", W1Padded, W10, OneX) >>,
     action_items |-> <<>>,
     admins |-> <<DefaultAdmin>>]

InitWith(store, up, budget) ==
    /\ users = store.users
    /\ reports = store.reports
    /\ action_items = store.action_items
    /\ admins = store.admins
    /\ files = [d \in Dates |-> <<>>]
    /\ startup = [s \in Servers |-> up]
    /\ req = [c \in Clients |-> Idle]
    /\ left = budget

\* An admin-only call with a valid cookie on any argument, or with another
\* cookie on the first one.
Calls(args, first) ==
    {call \in Tokens \X args : call[1] = admin_email \/ call[2] = first}

Init == InitWith(Staffed, "done", MaxRequests)

Next ==
    \/ \E c \in Clients, e \in Emails, p \in Passwords :
           /\ e = admin_email \/ p = admin_password
           /\ login(c, e, p)
    \/ \E c \in Clients : login_find(c)
    \/ \E c \in Clients : check_report(c, "2024-01-01", "Alice")
    \/ \E c \in Clients : check_report_find(c)
    \/ \E c \in Clients, s \in Submissions : save_report(c, "2024-01-02", "Bob", s[1], s[2], s[3])
    \/ \E c \in Clients : save_report_find(c)
    \/ \E c \in Clients : save_report_insert(c)
    \/ \E c \in Clients : get_current_admin(c)
    \/ \E c \in Clients, call \in Calls({"Carol"}, "Carol") : add_user(c, call[1], call[2])
    \/ \E c \in Clients : add_user_find(c)
    \/ \E c \in Clients : add_user_insert(c)
    \/ \E c \in Clients, call \in Calls({"Alice"}, "Alice") : delete_user(c, call[1], call[2])
    \/ \E c \in Clients : delete_user_find(c)
    \/ \E c \in Clients : delete_user_delete_one(c)
    \/ \E c \in Clients : delete_user_delete_many(c)
    \/ \E c \in Clients, t \in Tokens : get_users(c, t)
    \/ \E c \in Clients : get_users_find(c)
    \/ \E c \in Clients, call \in Calls({"2024-01-01"}, "2024-01-01") : get_reports(c, call[1], call[2])
    \/ \E c \in Clients : get_reports_find(c)
    \/ \E c \in Clients, call \in Calls(Dates, "2024-01-01") :
           generate_action_items(c, call[1], call[2])
    \/ \E c \in Clients : generate_find_reports(c)
    \/ \E c \in Clients : generate_find_items(c)
    \/ \E c \in Clients, x \in LlmContents : generate_llm_ok(c, x)
    \/ \E c \in Clients : generate_llm_fail(c)
    \/ \E c \in Clients : generate_insert(c)
    \/ \E c \in Clients, call \in Calls({"2024-01-01"}, "2024-01-01") : get_action_items(c, call[1], call[2])
    \/ \E c \in Clients : get_action_items_find(c)
    \/ \E c \in Clients, call \in Calls({"2024-01-01"}, "2024-01-01") : download_report(c, call[1], call[2])
    \/ \E c \in Clients : download_find_reports(c)
    \/ \E c \in Clients : download_find_items(c)

Spec == Init /\ [][Next]_vars

\* The public report workflow alone, on an empty store, with every kind of
\* submission.
InitSubmit == InitWith(Booted, "done", MaxRequests)

NextSubmit ==
    \/ \E c \in Clients, d \in Dates, n \in Names : check_report(c, d, n)
    \/ \E c \in Clients : check_report_find(c)
    \/ \E c \in Clients, d \in Dates, n \in Names, s \in AllSubmissions :
           save_report(c, d, n, s[1], s[2], s[3])
    \/ \E c \in Clients : save_report_find(c)
    \/ \E c \in Clients : save_report_insert(c)

SpecSubmit == InitSubmit /\ [][NextSubmit]_vars

\* The user-directory handlers alone.
InitUsers == InitWith(Staffed, "done", MaxUserRequests)

NextUsers ==
    \/ \E c \in Clients : get_current_admin(c)
    \/ \E c \in Clients, call \in Calls({"Alice", "Carol"}, "Carol") :
           add_user(c, call[1], call[2])
    \/ \E c \in Clients : add_user_find(c)
    \/ \E c \in Clients : add_user_insert(c)
    \/ \E c \in Clients, call \in Calls({"Alice", "Carol"}, "Carol") :
           delete_user(c, call[1], call[2])
    \/ \E c \in Clients : delete_user_find(c)
    \/ \E c \in Clients : delete_user_delete_one(c)
    \/ \E c \in Clients : delete_user_delete_many(c)
    \/ \E c \in Clients, t \in Tokens : get_users(c, t)
    \/ \E c \in Clients : get_users_find(c)

SpecUsers == InitUsers /\ [][NextUsers]_vars

\* The workers' startup hooks on a fresh database, and the logins that follow.
Fresh == [Booted EXCEPT !.admins = <<>>]

InitStartup == InitWith(Fresh, "find", MaxRequests)

NextStartup ==
    \/ \E s \in Servers : startup_find(s)
    \/ \E s \in Servers : startup_insert(s)
    \/ \E c \in Clients, e \in Emails, p \in Passwords : login(c, e, p)
    \/ \E c \in Clients : login_find(c)

SpecStartup == InitStartup /\ [][NextStartup]_vars

\* ------------------------------------------------------------------ claims
\* The step of client c: its request record changes.
Acts(c) == req'[c] # req[c]

Gen(c) == req[c].op = "generate_action_items"

ReportsOf(coll, date, name) ==
    {i \in DOMAIN coll : coll[i].date = date /\ coll[i].name = name}

ItemsOf(coll, date) == {i \in DOMAIN coll : coll[i].date = date}

Named(coll, name) == {i \in DOMAIN coll : coll[i].name = name}

\* The words of a text, counted by where they start.
WordStarts(text) ==
    {i \in 1..Len(text) :
        text[i] \notin Whitespace /\ (i = 1 \/ text[i - 1] \in Whitespace)}

WithinLimit(text) == Cardinality(WordStarts(text)) \in 1..MaxWords

\* C1: for every (date, name) at most one Report is in the store, whatever the
\* interleaving of the submissions' find_one and insert_one steps, and a
\* submission that finds a report for its pair is answered 400 and adds nothing.
C1_OneReportPerPair ==
    [][ /\ \A r \in {reports'[i] : i \in DOMAIN reports'} :
               Cardinality(ReportsOf(reports', r.date, r.name)) <= 1
        /\ \A c \in Clients :
               ( /\ req[c].op = "save_report" /\ req[c].pc = "find" /\ Acts(c)
                 /\ ReportsOf(reports, req[c].date, req[c].name) # {} )
               => req'[c].status = 400 /\ reports' = reports ]_vars

\* C2: every stored Report has `yesterday` and `today` non-empty after trimming
\* and of at most 10 words, and a save_report call that breaks either rule is
\* answered 400 at once and leaves the report store unchanged.
C2_ReportsWithinLimit ==
    [][ /\ \A i \in DOMAIN reports' :
               WithinLimit(reports'[i].yesterday) /\ WithinLimit(reports'[i].today)
        /\ \A c \in Clients :
               ( /\ Free(c) /\ Acts(c) /\ req'[c].op = "save_report"
                 /\ ~(WithinLimit(req'[c].yesterday) /\ WithinLimit(req'[c].today)) )
               => req'[c].pc = "done" /\ req'[c].status = 400 /\ reports' = reports ]_vars

\* C2 witness: a submission with an 11-word field has been rejected with 400
\* while a report with a 10-word field, padded with whitespace, is stored.
C2_Witness ==
    /\ \E c \in Clients :
           /\ req[c].op = "save_report" /\ req[c].status = 400
           /\ Cardinality(WordStarts(req[c].today)) = MaxWords + 1
    /\ \E i \in DOMAIN reports :
           /\ Cardinality(WordStarts(reports[i].yesterday)) = MaxWords
           /\ Len(reports[i].yesterday) > Len(strip(reports[i].yesterday))

\* C3: once ActionItems exist for a date, the external call is not made for that
\* date again, and every successful generate_action_items answer for the date is
\* the text generated first.
C3_GenerateIdempotent ==
    [][ \A c \in Clients :
          /\ (Gen(c) /\ req[c].pc = "llm" /\ Acts(c))
             => ItemsOf(action_items, req[c].date) = {}
          /\ (Gen(c) /\ ~Free(c) /\ Acts(c) /\ req'[c].status = 200)
             => \E i \in ItemsOf(action_items', req[c].date) :
                    /\ \A j \in ItemsOf(action_items', req[c].date) : i <= j
                    /\ req'[c].body = action_items'[i].items ]_vars

\* C4: the cache holds at most one ActionItems record per date, and a record,
\* once there, is never changed, removed or replaced.
C4_OneImmutableRecord ==
    [][ /\ \A d \in Dates : Cardinality(ItemsOf(action_items', d)) <= 1
        /\ \A i \in DOMAIN action_items :
               i \in DOMAIN action_items' /\ action_items'[i] = action_items[i] ]_vars

\* C5: a delete_user(name) that finds the user leaves no user of that name,
\* removes exactly the Reports of that name and touches no other user, no other
\* Report and no ActionItems; one that does not find the user is answered 404
\* and changes nothing.
C5_DeleteUserCascade ==
    [][ \A c \in Clients :
          (req[c].op = "delete_user" /\ Acts(c)) =>
            /\ req[c].pc = "find" =>
                 /\ stores' = stores
                 /\ (Named(users, req[c].name) = {}) <=> (req'[c].status = 404)
            /\ req[c].pc = "delete_one" =>
                 /\ Named(users', req[c].name) = {}
                 /\ SelectSeq(users', LAMBDA u : u.name # req[c].name)
                      = SelectSeq(users, LAMBDA u : u.name # req[c].name)
                 /\ reports' = reports /\ action_items' = action_items
            /\ req[c].pc = "delete_many" =>
                 /\ reports' = SelectSeq(reports, LAMBDA r : r.name # req[c].name)
                 /\ users' = users /\ action_items' = action_items
                 /\ req'[c].status = 200 ]_vars

\* C6: when the external call fails, the request ends with 500 and the cache is
\* left as it was, and a generate_action_items call that finds no ActionItems
\* for its date goes on to the external call.
C6_FailureNotCached ==
    [][ \A c \in Clients :
          /\ (Acts(c) /\ req'[c].op = "generate_action_items" /\ req'[c].status = 500)
             => /\ req[c].pc = "llm" /\ req'[c].pc = "done"
                /\ action_items' = action_items
          /\ ( /\ Gen(c) /\ req[c].pc = "find_items" /\ Acts(c)
               /\ ItemsOf(action_items, req[c].date) = {} )
             => req'[c].pc = "llm" ]_vars

\* C6 witness: for one date a call has failed with 500, another has succeeded,
\* and the cache holds exactly the record of the call that succeeded.
C6_Witness ==
    \E a, b \in Clients :
        /\ req[a].op = "generate_action_items" /\ req[a].status = 500
        /\ req[b].op = "generate_action_items" /\ req[b].status = 200
        /\ req[a].date = req[b].date
        /\ action_items = <<[date |-> req[b].date, items |-> req[b].body]>>

BadToken(token) ==
    \/ token \in {NoCookie, ""}
    \/ ~\E i \in DOMAIN admins : admins[i].email = token

\* C7: an admin-only request without a cookie, or with a cookie that is not the
\* email of a known admin, gets no further than the admin lookup, is answered
\* 401 and changes no collection and no file; and login hands out a token only
\* for the email of an admin whose password verifies, the token being that email.
C7_AdminGate ==
    [][ \A c \in Clients :
          /\ (Acts(c) /\ req'[c].op \in AdminOps /\ BadToken(req'[c].token))
             => /\ req'[c].pc \in {"auth", "done"}
                /\ req'[c].pc = "done" => req'[c].status = 401
                /\ stores' = stores
          /\ (Acts(c) /\ req'[c].op = "login" /\ req'[c].status = 200)
             => /\ \E i \in DOMAIN admins :
                       /\ admins[i].email = req[c].email
                       /\ admins[i].password = hash(req[c].password)
                /\ req'[c].body = <<req[c].email>> ]_vars

\* C7 witness: a delete_user for an existing user, sent with a cookie that names
\* no admin, has been answered 401 and the user and the reports are still there.
C7_Witness ==
    \E c \in Clients :
        /\ req[c].op = "delete_user" /\ req[c].pc = "done" /\ req[c].status = 401
        /\ req[c].token = "mallory@example.com"
        /\ Named(users, req[c].name) # {} /\ Named(reports, req[c].name) # {}

\* C8: when save_report stores a Report, its name is a user of the directory.
C8_ReportNameIsUser ==
    [][ \A c \in Clients :
          (req[c].op = "save_report" /\ req[c].pc = "insert" /\ Acts(c))
          => Named(users, req[c].name) # {} ]_vars

\* C9: the store never holds more than one record with the default email, and
\* no startup adds a record when some Admin already exists.
C9_OneDefaultAdmin ==
    [][ /\ Cardinality({i \in DOMAIN admins' : admins'[i].email = admin_email}) <= 1
        /\ admins' # admins => admins = <<>> ]_vars

\* C10: a stored Report is never changed and stays where it is: the report store
\* changes only by a save_report appending one Report after the others, or by
\* the delete_many of a delete_user removing the Reports of its name and no
\* others.
C10_ReportsOnlyAppendedOrCascaded ==
    [][ \/ reports' = reports
        \/ \E c \in Clients :
              /\ req[c].op = "save_report" /\ req[c].pc = "insert" /\ Acts(c)
              /\ Len(reports') = Len(reports) + 1
              /\ SubSeq(reports', 1, Len(reports)) = reports
        \/ \E c \in Clients :
              /\ req[c].op = "delete_user" /\ req[c].pc = "delete_many" /\ Acts(c)
              /\ reports' = SelectSeq(reports, LAMBDA r : r.name # req[c].name) ]_vars

\* C10 witness: a delete_user for Alice has succeeded, her Reports are gone and
\* a Report of another user is still stored, unchanged.
C10_Witness ==
    /\ \E c \in Clients :
           /\ req[c].op = "delete_user" /\ req[c].status = 200 /\ req[c].name = "Alice"
    /\ reports = <<Report("2024-01-01", "Bob", W1Padded, W10, OneX)>>
====
